---- MODULE Spec2Model ----
(***************************************************************************)
(* A model of the SPMI bus controller driver (proxyclient/m1n1/hw/spmi.py) *)
(* and of the HPM port-controller protocol layered on it                   *)
(* (proxyclient/experiments/hpm_spmi.py).                                  *)
(*                                                                         *)
(* A 32-bit FIFO word is kept as a pair <<lo, hi>> of 16-bit halves, so    *)
(* that every field of R_CMD / R_REPLY and every struct.pack/unpack is     *)
(* computed with integer arithmetic that stays below 2^31.                 *)
(***************************************************************************)
EXTENDS Integers, Sequences, FiniteSets, TLC

VARIABLES
    \* ---- the controller: SPMI.raw_command / SPMI.raw_read ----
    rx,       \* RX FIFO: words the device has queued, head first
    tx,       \* words written to the TX FIFO by the running call
    rpc,      \* position of raw_command: idle, drain, payload, reply, data
    rarg,     \* arguments of the running (or last) raw_command
    rdata,    \* payload bytes not yet written to the TX FIFO
    rreply,   \* the reply word read by the call (<<>> while none was read)
    rbuf,     \* buf: data bytes accumulated so far
    rleft,    \* left: bytes still to be received
    polls,    \* failed attempts of the running raw_read loop
    rret,     \* outcome of the last raw_command
    answered, \* the device has answered the command of the running call
    hist,     \* history of the controller: how many words the running call
              \* found queued, how many of them are still queued, whether its
              \* drain loop discarded a word, what the device answered, and
              \* whether so far the device was regular (no stray word, every
              \* answer of 1 + ceil(size / 4) words), every call succeeded,
              \* and a call has returned
    par,      \* two callers of raw_command on one controller: the position and
              \* the locals of each, the RX FIFO, the command words the device
              \* has not served yet, and whether two calls ever overlapped
    \* ---- the HPM protocol: HpmSPMI ----
    stack,    \* call stack of the running HpmSPMI operation, innermost last
    rv,       \* value returned by the call that returned last
    hop,      \* the top-level operation that runs (or ran last) and its arguments
    hret,     \* outcome of the top-level operation
    prev,     \* the top-level operation before hop, with its outcome
    trace,    \* bus commands issued by the top-level operation, in order
    calls,    \* read() / write() calls completed inside the top-level operation
    polled,   \* status words command() has read in its completion loop
    dev,      \* the device: selection, registers, staged bytes, wake-up, command
    dev0,     \* the device when the top-level operation started
    faults,   \* bus / device faults injected so far
    nops      \* top-level operations started so far

rvars == <<rx, tx, rpc, rarg, rdata, rreply, rbuf, rleft, polls, rret, answered, hist, par>>

hvars == <<stack, rv, hop, hret, prev, trace, calls, polled, dev, dev0, faults, nops>>

vars == <<rvars, hvars>>

(***************************************************************************)
(* Opcodes                                                                 *)
(***************************************************************************)
CMD_RESET == 16
CMD_SLEEP == 17
CMD_SHUTDOWN == 18
CMD_WAKEUP == 19
CMD_SLAVE_DESC == 28
CMD_EXT_WRITE == 0
CMD_EXT_READ == 32
CMD_EXT_WRITEL == 48
CMD_EXT_READL == 56
CMD_WRITE == 64
CMD_READ == 96
CMD_ZERO_WRITE == 128

\* range(1000) of raw_read
RX_POLLS == 1000

(***************************************************************************)
(* Bounds of the model                                                     *)
(***************************************************************************)
\* longest RX FIFO content the device may build up with unsolicited words
MaxRx == 1

(***************************************************************************)
(* Bytes, words and bit fields                                             *)
(***************************************************************************)
Min(a, b) == IF a < b THEN a ELSE b

RECURSIVE Pow2(_)
Pow2(n) == IF n = 0 THEN 1 ELSE 2 * Pow2(n - 1)

\* data[:n]
Take(s, n) == SubSeq(s, 1, Min(n, Len(s)))

\* data[n:]
Drop(s, n) == SubSeq(s, Min(n, Len(s)) + 1, Len(s))

\* any(bytes)
AnyByte(s) == \E i \in 1..Len(s) : s[i] # 0

\* b"\0" * n
Zeros(n) == [i \in 1..n |-> 0]

\* the four bytes of a word, most significant first
Pack_big_endian(w) == <<w[2] \div 256, w[2] % 256, w[1] \div 256, w[1] % 256>>

\* struct.pack("<I", word): the four bytes of a word, least significant first
Pack(w) == <<w[1] % 256, w[1] \div 256, w[2] % 256, w[2] \div 256>>

\* struct.unpack("<I", blk)[0]
Unpack(blk) == <<blk[1] + 256 * blk[2], blk[3] + 256 * blk[4]>>

\* blk = (data[:4] + b"\0\0\0")[:4]
Block(data) == Take(Take(data, 4) \o Zeros(3), 4)

\* R_CMD(EXTRA=extra, ACTIVE=active, SLAVE_ID=slave, CMD=cmd)
R_CMD(extra, active, slave, cmd) ==
    <<(cmd % 256) + 256 * (slave % 128) + 32768 * active, extra % 65536>>

\* the fields of R_REPLY
R_REPLY(parity, ack, slave, cmd) ==
    <<(cmd % 256) + 256 * (slave % 128) + 32768 * ack, parity % 65536>>

FRAME_PARITY(w) == w[2]
ACK(w) == w[1] \div 32768
SLAVE_ID(w) == (w[1] \div 256) % 128
CMD(w) == w[1] % 256

\* a mask with one bit per 32-bit data word instead of one per byte
ExpectedParityPerFrame(size) == Pow2((size + 3) \div 4) - 1

\* the FRAME_PARITY raw_command accepts: (1 << size) - 1
ExpectedParity(size) == Pow2(size) - 1

\* number of raw_read calls of the data loop: left goes size, size-4, ... while > 0
DataWords(size) == (size + 3) \div 4

(***************************************************************************)
(* Outcomes of raw_command                                                 *)
(***************************************************************************)
NoRet == [status |-> "none", ack |-> 0, data |-> <<>>]
Raise(e) == [status |-> e, ack |-> 0, data |-> <<>>]
Return(ack, data) == [status |-> "ok", ack |-> ack, data |-> data]

NoArg == [slave |-> 0, cmd |-> 0, extra |-> 0, data |-> <<>>, size |-> 0]
Arg(slave, cmd, extra, data, size) ==
    [slave |-> slave, cmd |-> cmd, extra |-> extra, data |-> data, size |-> size]

(***************************************************************************)
(* Bitwise or of two naturals (the | of the opcode encodings)              *)
(***************************************************************************)
RECURSIVE BitOr(_, _)
BitOr(a, b) ==
    IF a = 0 THEN b
    ELSE IF b = 0 THEN a
    ELSE (IF a % 2 = 1 \/ b % 2 = 1 THEN 1 ELSE 0) + 2 * BitOr(a \div 2, b \div 2)

(***************************************************************************)
(* The opcode-specific wrappers: the raw_command each one issues           *)
(***************************************************************************)
\* reset / sleep / shutdown / wakeup
simple_cmd(slave, cmd) == Arg(slave, cmd, 0, <<>>, 0)

get_descriptor(slave) == Arg(slave, CMD_SLAVE_DESC, 0, <<>>, 10)

read_reg(slave, reg) == Arg(slave, BitOr(CMD_READ, reg), reg, <<>>, 1)

write_reg(slave, reg, value) ==
    Arg(slave, BitOr(CMD_WRITE, reg), BitOr(reg, value * 256), <<>>, 0)

write_zero(slave, value) ==
    Arg(slave, BitOr(CMD_ZERO_WRITE, value), value * 256, <<>>, 0)

read_ext(slave, reg, size) ==
    Arg(slave, BitOr(CMD_EXT_READ, size - 1), reg, <<>>, size)

write_ext(slave, reg, data) ==
    Arg(slave, BitOr(CMD_EXT_WRITE, Len(data) - 1), reg, data, 0)

read_extl(slave, reg, size) ==
    Arg(slave, BitOr(CMD_EXT_READL, size - 1), reg, <<>>, size)

write_extl(slave, reg, data) ==
    Arg(slave, BitOr(CMD_EXT_WRITEL, Len(data) - 1), reg, data, 0)

(***************************************************************************)
(* Inputs of the controller-level specification                            *)
(***************************************************************************)
Slaves == {12}

\* a payload of n bytes: 1, 2, ..., n
Ramp(n) == [i \in 1..n |-> i]

RawCalls ==
    UNION { { simple_cmd(s, c) : c \in {CMD_RESET, CMD_SLEEP, CMD_SHUTDOWN, CMD_WAKEUP} }
            \cup { get_descriptor(s) }
            \cup { read_reg(s, r) : r \in {0, 31} }
            \cup { write_reg(s, 1, 171) }
            \cup { write_zero(s, v) : v \in {3, 9} }
            \cup { read_ext(s, 32, n) : n \in 1..16 }
            \cup { write_ext(s, 160, Ramp(n)) : n \in {1, 5, 16} }
            \cup { read_extl(s, 32, n) : n \in {1, 8} }
            \cup { write_extl(s, 160, Ramp(2)) }
          : s \in Slaves }
    \cup { simple_cmd(16, CMD_RESET) }

(***************************************************************************)
(* SPMI.raw_command, one action per register access                        *)
(***************************************************************************)
\* a caller enters raw_command
RawCall ==
    /\ UNCHANGED <<hvars, par>>
    /\ rpc = "idle"
    /\ \E a \in RawCalls :
         /\ rarg' = a
         /\ rdata' = a.data
    /\ rpc' = "drain"
    /\ tx' = <<>>
    /\ rreply' = <<>>
    /\ rbuf' = <<>>
    /\ rleft' = 0
    /\ polls' = 0
    /\ rret' = NoRet
    /\ answered' = FALSE
    /\ hist' = [hist EXCEPT !.n0 = Len(rx), !.left0 = Len(rx),
                             !.drained = FALSE, !.answer = <<>>]
    /\ UNCHANGED rx

\* while not RX_EMPTY: print(">", REPLY.val)
Drain ==
    /\ UNCHANGED <<hvars, par>>
    /\ rpc = "drain"
    /\ rx # <<>>
    /\ rx' = Tail(rx)
    /\ hist' = [hist EXCEPT !.drained = TRUE,
                             !.left0 = IF @ > 0 THEN @ - 1 ELSE 0]
    /\ UNCHANGED <<tx, rpc, rarg, rdata, rreply, rbuf, rleft, polls, rret, answered>>

\* the command word is written without waiting for the drain loop to end
SendCommand_before_drain ==
    /\ UNCHANGED <<hvars, par>>
    /\ rpc = "drain"
    /\ IF rarg.slave \in 0..15 /\ rarg.cmd \in 0..255 /\ rarg.extra \in 0..65535
       THEN /\ tx' = Append(tx, R_CMD(rarg.extra, 1, rarg.slave, rarg.cmd))
            /\ rpc' = IF rdata = <<>> THEN "reply" ELSE "payload"
            /\ rret' = rret
       ELSE /\ tx' = tx
            /\ rpc' = "idle"
            /\ rret' = Raise("Precondition")
    /\ hist' = [hist EXCEPT !.clean = @ /\ rret'.status \in {"none", "ok"},
                             !.done = @ \/ rret'.status # "none"]
    /\ UNCHANGED <<rx, rarg, rdata, rreply, rbuf, rleft, polls, answered>>

\* the range assertion and the write of the command word
SendCommand ==
    /\ UNCHANGED <<hvars, par>>
    /\ rpc = "drain"
    /\ rx = <<>>
    /\ IF rarg.slave \in 0..15 /\ rarg.cmd \in 0..255 /\ rarg.extra \in 0..65535
       THEN /\ tx' = Append(tx, R_CMD(rarg.extra, 1, rarg.slave, rarg.cmd))
            /\ rpc' = IF rdata = <<>> THEN "reply" ELSE "payload"
            /\ rret' = rret
       ELSE /\ tx' = tx
            /\ rpc' = "idle"
            /\ rret' = Raise("Precondition")
    /\ hist' = [hist EXCEPT !.clean = @ /\ rret'.status \in {"none", "ok"},
                             !.done = @ \/ rret'.status # "none"]
    /\ UNCHANGED <<rx, rarg, rdata, rreply, rbuf, rleft, polls, answered>>

\* while data: one 4-byte block, zero padded, is written per iteration
SendPayload ==
    /\ UNCHANGED <<hvars, par>>
    /\ rpc = "payload"
    /\ tx' = Append(tx, Unpack(Block(rdata)))
    /\ rdata' = Drop(rdata, 4)
    /\ rpc' = IF Drop(rdata, 4) = <<>> THEN "reply" ELSE "payload"
    /\ UNCHANGED <<rx, rarg, rreply, rbuf, rleft, polls, rret, answered, hist>>

\* raw_read: an attempt that finds the RX FIFO empty
RawReadEmpty ==
    /\ UNCHANGED <<hvars, par>>
    /\ rpc \in {"reply", "data"}
    /\ polls < RX_POLLS
    /\ rx = <<>>
    /\ polls' = polls + 1
    /\ UNCHANGED <<rx, tx, rpc, rarg, rdata, rreply, rbuf, rleft, rret, answered, hist>>

\* raw_read: the loop is exhausted
RawReadTimeout ==
    /\ UNCHANGED <<hvars, par>>
    /\ rpc \in {"reply", "data"}
    /\ polls = RX_POLLS
    /\ rpc' = "idle"
    /\ rret' = Raise("Timeout")
    /\ hist' = [hist EXCEPT !.clean = FALSE, !.done = TRUE]
    /\ UNCHANGED <<rx, tx, rarg, rdata, rreply, rbuf, rleft, polls, answered>>

\* the return without the check of the bytes cut off
Finish_no_padding_check(reply, buf, size) == Return(ACK(reply), Take(buf, size))

\* assert not any(buf[size:]); return reply.ACK, buf[:size]
Finish(reply, buf, size) ==
    IF AnyByte(Drop(buf, size)) THEN Raise("Padding")
    ELSE Return(ACK(reply), Take(buf, size))

\* the two checks on the reply word in the other order
ReplyOutcome_parity_first(a, reply) ==
    IF FRAME_PARITY(reply) # ExpectedParity(a.size) THEN "FrameParity"
    ELSE IF ~(SLAVE_ID(reply) = a.slave /\ CMD(reply) = a.cmd) THEN "ProtocolMismatch"
    ELSE "ok"

\* what raw_command does with the reply word
ReplyOutcome(a, reply) ==
    IF ~(SLAVE_ID(reply) = a.slave /\ CMD(reply) = a.cmd) THEN "ProtocolMismatch"
    ELSE IF FRAME_PARITY(reply) # ExpectedParity(a.size) THEN "FrameParity"
    ELSE "ok"

\* reply = R_REPLY(self.raw_read()) and the two checks on it
ReadReply ==
    /\ UNCHANGED <<hvars, par>>
    /\ rpc = "reply"
    /\ polls < RX_POLLS
    /\ rx # <<>>
    /\ rx' = Tail(rx)
    /\ rreply' = Head(rx)
    /\ rbuf' = <<>>
    /\ LET out == ReplyOutcome(rarg, Head(rx)) IN
         IF out # "ok"
         THEN /\ rpc' = "idle"
              /\ rret' = Raise(out)
              /\ rleft' = rleft
         ELSE /\ rleft' = rarg.size
              /\ rpc' = IF rarg.size > 0 THEN "data" ELSE "idle"
              /\ rret' = IF rarg.size > 0 THEN rret
                         ELSE Finish(Head(rx), <<>>, rarg.size)
    /\ polls' = 0
    /\ hist' = [hist EXCEPT !.clean = @ /\ rret'.status \in {"none", "ok"},
                             !.done = @ \/ rret'.status # "none"]
    /\ UNCHANGED <<tx, rarg, rdata, answered>>

\* a data loop that counts 8 bytes for each word read
ReadData_counts_double ==
    /\ UNCHANGED <<hvars, par>>
    /\ rpc = "data"
    /\ polls < RX_POLLS
    /\ rx # <<>>
    /\ rx' = Tail(rx)
    /\ rbuf' = rbuf \o Pack(Head(rx))
    /\ rleft' = rleft - 8
    /\ IF rleft - 8 > 0
       THEN /\ rpc' = "data"
            /\ rret' = rret
       ELSE /\ rpc' = "idle"
            /\ rret' = Finish(rreply, rbuf \o Pack(Head(rx)), rarg.size)
    /\ polls' = 0
    /\ hist' = [hist EXCEPT !.clean = @ /\ rret'.status \in {"none", "ok"},
                             !.done = @ \/ rret'.status # "none"]
    /\ UNCHANGED <<tx, rarg, rdata, rreply, answered>>

\* buf += struct.pack("<I", self.raw_read()); left -= 4
ReadData ==
    /\ UNCHANGED <<hvars, par>>
    /\ rpc = "data"
    /\ polls < RX_POLLS
    /\ rx # <<>>
    /\ rx' = Tail(rx)
    /\ rbuf' = rbuf \o Pack(Head(rx))
    /\ rleft' = rleft - 4
    /\ IF rleft - 4 > 0
       THEN /\ rpc' = "data"
            /\ rret' = rret
       ELSE /\ rpc' = "idle"
            /\ rret' = Finish(rreply, rbuf \o Pack(Head(rx)), rarg.size)
    /\ polls' = 0
    /\ hist' = [hist EXCEPT !.clean = @ /\ rret'.status \in {"none", "ok"},
                             !.done = @ \/ rret'.status # "none"]
    /\ UNCHANGED <<tx, rarg, rdata, rreply, answered>>

(***************************************************************************)
(* The bus and the device, as the controller sees them through the FIFOs   *)
(***************************************************************************)
\* the data words of an answer of n bytes: byte i is (fill + i) % 256, the
\* bytes after the n-th of the last word are pad
AnswerBytes(n, fill, pad) ==
    [i \in 1..(4 * DataWords(n)) |-> IF i <= n THEN (fill + i) % 256 ELSE pad]

RECURSIVE Words(_)
Words(bytes) ==
    IF bytes = <<>> THEN <<>> ELSE <<Unpack(Block(bytes))>> \o Words(Drop(bytes, 4))

\* FRAME_PARITY values a reply may carry: every frame good (one bit per byte
\* frame), one bit per 32-bit word, the last frame lost, nothing received
ParityChoices(size) ==
    {Pow2(size) - 1, Pow2((size + 3) \div 4) - 1, Pow2(size) \div 2, 0}

\* a data word the device sends beyond those the command asked for
ExtraWord == <<7, 0>>

\* the answers to the command a: a reply word and the data words, one data
\* word less, or one more; or a reply that names another slave or another
\* command, with good or bad frame parity, and the data words
Answers(a) ==
    { <<R_REPLY(fp, ack, id[1], id[2])>>
         \o Take(Words(AnswerBytes(a.size, fill, pad)) \o <<ExtraWord>>, n)
      : fp \in ParityChoices(a.size),
        ack \in {0, 1},
        id \in {<<a.slave, a.cmd>>},
        fill \in {0},
        pad \in {0, 255},
        n \in {DataWords(a.size) - 1, DataWords(a.size), DataWords(a.size) + 1} \cap Nat }
    \cup
    { <<R_REPLY(fp, 1, id[1], id[2])>> \o Words(AnswerBytes(a.size, 0, 0))
      : fp \in {ExpectedParity(a.size), Pow2(a.size) \div 2},
        id \in {<<(a.slave + 1) % 128, a.cmd>>, <<a.slave, (a.cmd + 1) % 256>>} }

\* the polls of raw_read at which an answer may arrive: at once, or just
\* before the loop gives up
ArrivalPolls == {0, RX_POLLS - 1}

\* the device answers the command that was sent
DeviceAnswer ==
    /\ UNCHANGED <<hvars, par>>
    /\ rpc = "reply"
    /\ ~answered
    /\ polls \in ArrivalPolls
    /\ \E ws \in Answers(rarg) :
         /\ rx' = rx \o ws
         /\ hist' = [hist EXCEPT !.answer = ws,
                                  !.regular = @ /\ Len(ws) = 1 + DataWords(rarg.size)]
    /\ answered' = TRUE
    /\ UNCHANGED <<tx, rpc, rarg, rdata, rreply, rbuf, rleft, polls, rret>>

StrayWords == {<<0, 0>>, R_REPLY(1, 1, 12, 96)}

\* an unsolicited word is queued while the controller is idle or draining
DeviceStray ==
    /\ UNCHANGED <<hvars, par>>
    /\ rpc \in {"idle", "drain"}
    /\ Len(rx) < MaxRx
    /\ \E w \in StrayWords : rx' = Append(rx, w)
    /\ hist' = [hist EXCEPT !.regular = FALSE]
    /\ UNCHANGED <<tx, rpc, rarg, rdata, rreply, rbuf, rleft, polls, rret, answered>>

(***************************************************************************)
(* raw_command as one exchange: the command a is sent with an empty RX     *)
(* FIFO and the words ws are what arrives afterwards                       *)
(***************************************************************************)
\* the words raw_command writes to the TX FIFO
TxWords(a) == <<R_CMD(a.extra, 1, a.slave, a.cmd)>> \o Words(a.data)

RECURSIVE PackAll(_)
PackAll(ws) == IF ws = <<>> THEN <<>> ELSE Pack(Head(ws)) \o PackAll(Tail(ws))

raw_command(a, ws) ==
    IF ~(a.slave \in 0..15 /\ a.cmd \in 0..255 /\ a.extra \in 0..65535)
    THEN Raise("Precondition")
    ELSE IF ws = <<>> THEN Raise("Timeout")
    ELSE IF ReplyOutcome(a, Head(ws)) # "ok" THEN Raise(ReplyOutcome(a, Head(ws)))
    ELSE IF Len(ws) - 1 < DataWords(a.size) THEN Raise("Timeout")
    ELSE Finish(Head(ws), PackAll(SubSeq(ws, 2, 1 + DataWords(a.size))), a.size)

(***************************************************************************)
(* The HPM device behind the bus                                           *)
(***************************************************************************)
hpm_reg_sizes ==
    << 4,  4,  4,  4,  4, 16,  0,  0,  8, 64,  0,  0,  0,  0,  0,  8,
       8, 64,  4,  4, 13, 13, 11, 11, 11, 11,  4, 13, 11, 11,  8, 64,
       1,  6,  6,  4,  9,  0,  4,  8, 64, 64,  8, 36, 48, 52,  0, 64,
      61, 53, 51, 45,  0, 18, 12, 12, 10,  4,  4, 16, 36, 36, 64,  6,
      14, 49, 34, 26, 17, 21, 25, 49, 61, 61, 54, 64, 64, 29, 29, 29,
       6,  7,  7,  0,  0,  0,  7, 64, 37, 11,  1,  0,  0,  5, 22,  4,
      64, 64, 64,  4, 64, 64, 64,  4, 56, 16, 56, 64, 64, 64, 20,  0,
       0, 52, 64, 50, 55,  0,  0,  0, 40, 64, 56, 46, 12, 64, 33, 64 >>

\* the capacity the device reports for a register
RegSize(reg) == IF reg \in 0..127 THEN hpm_reg_sizes[reg + 1] ELSE 0

\* the registers whose contents the model keeps
DevRegs == {3, 6, 8, 9, 20, 21, 24, 25, 32, 88}

\* b'!CMD'
BangCmd == <<33, 67, 77, 68>>

\* b'SSPS'
SSPS == <<83, 83, 80, 83>>

RECURSIVE BitAndNot(_, _)
\* a & ~b on naturals
BitAndNot(a, b) ==
    IF a = 0 THEN 0
    ELSE (IF a % 2 = 1 /\ b % 2 = 0 THEN 1 ELSE 0) + 2 * BitAndNot(a \div 2, b \div 2)

\* the contents of the selected register
Selected(d) == IF d.sel \in DevRegs THEN d.regs[d.sel] ELSE <<>>

\* n bytes of the read window (0x20 ..) of the selected register
Window(d, off, n) ==
    [i \in 1..n |->
       IF off >= 32 /\ off - 32 + i <= Len(Selected(d))
       THEN Selected(d)[off - 32 + i] ELSE 0]

\* bytes written at position pos (from 0) of the staging buffer
Stage(staged, pos, bytes) ==
    Take(staged \o Zeros(pos - Len(staged)), pos) \o bytes
        \o Drop(staged, pos + Len(bytes))

\* old with the staged bytes laid over its first bytes, cut to the capacity
Overlay(old, staged) == Take(staged \o Drop(old, Len(staged)), Len(old))

\* write-1-to-clear
ClearBits(old, ones) ==
    [i \in 1..Len(old) |->
       IF i <= Len(ones) THEN BitAndNot(old[i], ones[i]) ELSE old[i]]

\* the selection v is performed: staged bytes are latched into register v. A
\* latch into 0x18 / 0x19 clears the event bits of 0x14 / 0x15; a latch into
\* the command register 8 starts a command, whose status is then shown there:
\* the opcode while it runs, '!CMD' when it is not known.
Latch(d, v, ch) ==
    IF d.staged = <<>> \/ v \notin DevRegs THEN [d EXCEPT !.staged = <<>>]
    ELSE IF v \in {24, 25}
    THEN [d EXCEPT !.staged = <<>>,
                   !.regs[v - 4] = ClearBits(d.regs[v - 4], d.staged)]
    ELSE IF v = 8
    THEN [d EXCEPT !.staged = <<>>,
                   !.busy = (ch = "busy"),
                   !.regs[8] = Overlay(d.regs[8],
                       CASE ch = "busy" -> d.staged
                         [] ch = "bad" -> BangCmd
                         [] ch = "junk" -> <<255, 0, 0, 1>>
                         [] OTHER -> Zeros(4))]
    ELSE [d EXCEPT !.staged = <<>>, !.regs[v] = Overlay(d.regs[v], d.staged)]

\* a running command completes: its status reads as zero
Complete(d) == [d EXCEPT !.busy = FALSE, !.regs[8] = Overlay(d.regs[8], Zeros(4))]

\* what the device does with the words of one command, and what it answers.
\* ch is the device's own choice where it has one; f is a fault.
DevExec(d, ws, ch, f) ==
    LET cmd == CMD(ws[1])
        extra == ws[1][2]
        payload == PackAll(Tail(ws))
    IN  IF cmd >= CMD_ZERO_WRITE
        THEN [dev |-> IF f = "ignore" THEN d
                      ELSE [Latch(d, cmd - CMD_ZERO_WRITE, ch)
                               EXCEPT !.sel = cmd - CMD_ZERO_WRITE],
              ack |-> 1, data |-> <<>>]
        ELSE IF cmd >= CMD_READ
        THEN IF cmd - CMD_READ = 0
             THEN [dev |-> [d EXCEPT !.settle = IF d.settle > 0 THEN d.settle - 1 ELSE 0],
                   ack |-> 1,
                   data |-> <<IF d.settle > 0 THEN 0 ELSE d.sel>>]
             ELSE IF cmd - CMD_READ = 31
             THEN [dev |-> d, ack |-> 1,
                   data |-> <<IF f = "oversize" THEN 65 ELSE RegSize(d.sel)>>]
             ELSE [dev |-> d, ack |-> 1, data |-> <<0>>]
        ELSE IF cmd >= CMD_EXT_READ /\ cmd < CMD_EXT_READ + 16
        THEN LET d1 == IF d.busy /\ d.sel = 8 /\ ch # "busy" THEN Complete(d) ELSE d
             IN  [dev |-> d1, ack |-> 1,
                  data |-> Window(d1, extra, cmd - CMD_EXT_READ + 1)]
        ELSE IF cmd < CMD_EXT_WRITE + 16
        THEN [dev |-> IF extra >= 160
                      THEN [d EXCEPT !.staged =
                               Stage(d.staged, extra - 160, Take(payload, cmd + 1))]
                      ELSE d,
              ack |-> 1, data |-> <<>>]
        ELSE [dev |-> d, ack |-> 1, data |-> <<>>]

\* the words that reach the RX FIFO for the command a
DevAnswer(d, a, ch, f) ==
    LET x == DevExec(d, TxWords(a), ch, f) IN
    CASE f = "nack" ->
           [dev |-> d, ws |-> <<R_REPLY(0, 0, a.slave, a.cmd)>>]
      [] f = "silent" ->
           [dev |-> x.dev, ws |-> <<>>]
      [] f = "parity" ->
           [dev |-> x.dev,
            ws |-> <<R_REPLY(Pow2(Len(x.data) + 1) - 1, x.ack, a.slave, a.cmd)>>
                   \o Words(x.data)]
      [] OTHER ->
           [dev |-> x.dev,
            ws |-> <<R_REPLY(Pow2(Len(x.data)) - 1, x.ack, a.slave, a.cmd)>>
                   \o Words(x.data)]

(***************************************************************************)
(* HpmSPMI: constants of the protocol                                      *)
(***************************************************************************)
\* range(10) of wakeup
WAKEUP_TRIES == 10
\* assert size <= 64 of get_size
MAX_REG_SIZE == 64
\* the 16 of min(..., 16) in read and write
CHUNK == 16
\* 0x20 + len(data): the read window
READ_WINDOW == 32
\* 0xA0 + written: the write window
WRITE_WINDOW == 160
\* the registers of command(): parameters / output, and opcode / status
DATA_REG == 9
CMD_REG == 8
\* for base in (0x14, 0x15)
EventBases == <<20, 21>>
\* self.read(base, 9)
EVENT_BYTES == 9

\* self.slave
Slave == CHOOSE s \in Slaves : TRUE

(***************************************************************************)
(* Bounds of the HPM-level specifications                                  *)
(***************************************************************************)
\* read / write operations in one run
MaxOps == 2
\* command, read_events or wakeup operations in one run
MaxRuns == 1
\* faults injected in one run
MaxFaults == 1
\* status polls during which a command may stay busy
MaxBusy == 2
\* read_reg(0) answers the device may get wrong before it is awake
MaxSettle == 11

(***************************************************************************)
(* One bus command of HpmSPMI: the wrapper's assertion, the exchange with  *)
(* the device, raw_command's decoding of the answer                        *)
(***************************************************************************)
BusOp(op, reg, size, data) == [op |-> op, reg |-> reg, size |-> size, data |-> data]

WrapperOk(b) ==
    CASE b.op = "write_zero" -> b.reg >= 0 /\ b.reg < 128
      [] b.op = "read_reg" -> b.reg >= 0 /\ b.reg < 32
      [] b.op = "read_ext" -> 1 <= b.size /\ b.size <= 16 /\ b.reg >= 0 /\ b.reg < 256
      [] b.op = "write_ext" ->
             1 <= Len(b.data) /\ Len(b.data) <= 16 /\ b.reg >= 0 /\ b.reg < 256
      [] OTHER -> TRUE

BusArg(b) ==
    CASE b.op = "write_zero" -> write_zero(Slave, b.reg)
      [] b.op = "read_reg" -> read_reg(Slave, b.reg)
      [] b.op = "read_ext" -> read_ext(Slave, b.reg, b.size)
      [] b.op = "write_ext" -> write_ext(Slave, b.reg, b.data)
      [] OTHER -> simple_cmd(Slave, CMD_WAKEUP)

\* the choices the device has when it executes b
DevChoices(d, b, npolled) ==
    IF b.op = "write_zero" /\ b.reg = CMD_REG /\ d.staged # <<>>
    THEN {"go", "busy", "bad", "junk"}
    ELSE IF b.op = "read_ext" /\ d.busy /\ d.sel = CMD_REG /\ npolled < MaxBusy
    THEN {"go", "busy"}
    ELSE {"go"}

\* the faults that may hit b
FaultChoices(b, nf) ==
    IF nf >= MaxFaults THEN {"none"}
    ELSE {"none", "nack", "silent"}
         \cup (IF b.op \in {"read_reg", "read_ext"} THEN {"parity"} ELSE {})
         \cup (IF b.op = "write_zero" THEN {"ignore"} ELSE {})
         \cup (IF b.op = "read_reg" /\ b.reg = 31 THEN {"oversize"} ELSE {})

BusResults(d, b, nf, npolled) ==
    IF ~WrapperOk(b)
    THEN {[dev |-> d, ret |-> Raise("Precondition"), nf |-> 0]}
    ELSE { [dev |-> DevAnswer(d, BusArg(b), ch, f).dev,
            ret |-> raw_command(BusArg(b), DevAnswer(d, BusArg(b), ch, f).ws),
            nf |-> IF f = "none" THEN 0 ELSE 1]
           : ch \in DevChoices(d, b, npolled), f \in FaultChoices(b, nf) }

TraceEntry(b, o) ==
    [op |-> b.op, reg |-> b.reg, size |-> b.size, data |-> b.data,
     status |-> o.ret.status, ack |-> o.ret.ack, val |-> o.ret.data]

(***************************************************************************)
(* The call stack                                                          *)
(***************************************************************************)
Frame(fn, pc, reg, size, data, cmd) ==
    [fn |-> fn, pc |-> pc, reg |-> reg, size |-> size, data |-> data,
     cmd |-> cmd, n |-> 0, e |-> <<>>]

Top == stack[Len(stack)]
Below == SubSeq(stack, 1, Len(stack) - 1)
At(fn, pc) == stack # <<>> /\ Top.fn = fn /\ Top.pc = pc

HNone == [status |-> "none", value |-> <<>>]
HOk(v) == [status |-> "ok", value |-> v]
HErr(e) == [status |-> e, value |-> <<>>]

\* the running function returns value
Ret(value) ==
    /\ stack' = Below
    /\ rv' = value
    /\ hret' = IF Len(stack) = 1 THEN HOk(value) ELSE hret

\* an exception: nothing catches it
Fail(e) ==
    /\ stack' = <<>>
    /\ rv' = rv
    /\ hret' = HErr(e)

\* the running function goes on as frame f
Go(f) ==
    /\ stack' = Below \o <<f>>
    /\ UNCHANGED <<rv, hret>>

\* the running function goes on as frame f and calls g
Call(f, g) ==
    /\ stack' = Below \o <<f, g>>
    /\ UNCHANGED <<rv, hret>>

NoBus == UNCHANGED <<dev, trace, faults>>

BusDone(b, o) ==
    /\ dev' = o.dev
    /\ faults' = faults + o.nf
    /\ trace' = Append(trace, TraceEntry(b, o))

\* a selection of register 0 whatever register is asked for
select_frame_zero(reg) == Frame("select", "wz", 0, 0, <<>>, <<>>)

select_frame(reg) == Frame("select", "wz", reg, 0, <<>>, <<>>)
get_size_frame(reg) == Frame("get_size", "select", reg, 0, <<>>, <<>>)
read_frame(reg, size) == Frame("read", "get_size", reg, size, <<>>, <<>>)
write_frame(reg, data) == Frame("write", "get_size", reg, 0, data, <<>>)

(***************************************************************************)
(* HpmSPMI.select                                                          *)
(***************************************************************************)
\* reply = self.spmi.write_zero(self.slave, reg); assert reply
SelectWriteZero ==
    /\ At("select", "wz")
    /\ LET b == BusOp("write_zero", Top.reg, 0, <<>>) IN
       \E o \in BusResults(dev, b, faults, Len(polled)) :
         /\ BusDone(b, o)
         /\ IF o.ret.status # "ok" THEN Fail(o.ret.status)
            ELSE IF o.ret.ack = 0 THEN Fail("Selection")
            ELSE Go([Top EXCEPT !.pc = "rr"])
    /\ UNCHANGED <<hop, prev, calls, polled, dev0, nops>>
    /\ UNCHANGED rvars

\* the read-back without the comparison with reg
SelectReadReg_unchecked ==
    /\ At("select", "rr")
    /\ LET b == BusOp("read_reg", 0, 1, <<>>) IN
       \E o \in BusResults(dev, b, faults, Len(polled)) :
         /\ BusDone(b, o)
         /\ IF o.ret.status # "ok" THEN Fail(o.ret.status)
            ELSE Ret(<<>>)
    /\ UNCHANGED <<hop, prev, calls, polled, dev0, nops>>
    /\ UNCHANGED rvars

\* reg_read = self.spmi.read_reg(self.slave, 0); assert reg_read == reg
SelectReadReg ==
    /\ At("select", "rr")
    /\ LET b == BusOp("read_reg", 0, 1, <<>>) IN
       \E o \in BusResults(dev, b, faults, Len(polled)) :
         /\ BusDone(b, o)
         /\ IF o.ret.status # "ok" THEN Fail(o.ret.status)
            ELSE IF o.ret.data[1] # Top.reg THEN Fail("Selection")
            ELSE Ret(<<>>)
    /\ UNCHANGED <<hop, prev, calls, polled, dev0, nops>>
    /\ UNCHANGED rvars

(***************************************************************************)
(* HpmSPMI.get_size                                                        *)
(***************************************************************************)
\* self.select(reg)
GetSizeSelect ==
    /\ At("get_size", "select")
    /\ Call([Top EXCEPT !.pc = "rr"], select_frame(Top.reg))
    /\ NoBus
    /\ UNCHANGED <<hop, prev, calls, polled, dev0, nops>>
    /\ UNCHANGED rvars

\* size = self.spmi.read_reg(self.slave, 0x1F); assert size <= 64; return size
GetSizeReadReg ==
    /\ At("get_size", "rr")
    /\ LET b == BusOp("read_reg", 31, 1, <<>>) IN
       \E o \in BusResults(dev, b, faults, Len(polled)) :
         /\ BusDone(b, o)
         /\ IF o.ret.status # "ok" THEN Fail(o.ret.status)
            ELSE IF o.ret.data[1] > MAX_REG_SIZE THEN Fail("SizeOverflow")
            ELSE Ret(o.ret.data[1])
    /\ UNCHANGED <<hop, prev, calls, polled, dev0, nops>>
    /\ UNCHANGED rvars

(***************************************************************************)
(* HpmSPMI.read                                                            *)
(***************************************************************************)
\* an offset that does not advance with the bytes read
read_offset_stuck(have) == READ_WINDOW

\* 0x20 + len(data)
read_offset(have) == READ_WINDOW + have

\* a chunk one byte short of the 16 a frame carries
read_chunk_short(size, have) == Min(size - have, CHUNK - 1)

\* a chunk that takes all the bytes still missing
read_chunk_uncapped(size, have) == size - have

\* min(size - len(data), 16)
read_chunk(size, have) == Min(size - have, CHUNK)

\* exp_size = self.get_size(reg)
ReadGetSize ==
    /\ At("read", "get_size")
    /\ Call([Top EXCEPT !.pc = "check"], get_size_frame(Top.reg))
    /\ NoBus
    /\ UNCHANGED <<hop, prev, calls, polled, dev0, nops>>
    /\ UNCHANGED rvars

\* the read goes on without the comparison of size with the capacity
ReadCheck_unchecked ==
    /\ At("read", "check")
    /\ LET size == IF Top.size = -1 THEN rv ELSE Top.size IN
         Go([Top EXCEPT !.pc = "loop", !.size = size, !.data = <<>>])
    /\ NoBus
    /\ UNCHANGED <<hop, prev, calls, polled, dev0, nops>>
    /\ UNCHANGED rvars

\* if size == -1: size = exp_size; assert size <= exp_size; data = b''
ReadCheck ==
    /\ At("read", "check")
    /\ LET size == IF Top.size = -1 THEN rv ELSE Top.size IN
         IF size <= rv
         THEN Go([Top EXCEPT !.pc = "loop", !.size = size, !.data = <<>>])
         ELSE Fail("SizeMismatch")
    /\ NoBus
    /\ UNCHANGED <<hop, prev, calls, polled, dev0, nops>>
    /\ UNCHANGED rvars

\* data += self.spmi.read_ext(self.slave, 0x20 + len(data), min(size - len(data), 16))
ReadChunk ==
    /\ At("read", "loop")
    /\ Len(Top.data) < Top.size
    /\ LET b == BusOp("read_ext", read_offset(Len(Top.data)),
                      read_chunk(Top.size, Len(Top.data)), <<>>) IN
       \E o \in BusResults(dev, b, faults, Len(polled)) :
         /\ BusDone(b, o)
         /\ IF o.ret.status # "ok" THEN Fail(o.ret.status)
            ELSE Go([Top EXCEPT !.data = Top.data \o o.ret.data])
    /\ UNCHANGED <<hop, prev, calls, polled, dev0, nops>>
    /\ UNCHANGED rvars

\* return data
ReadReturn ==
    /\ At("read", "loop")
    /\ ~(Len(Top.data) < Top.size)
    /\ Ret(Top.data)
    /\ calls' = Append(calls, [fn |-> "read", reg |-> Top.reg, data |-> Top.data])
    /\ NoBus
    /\ UNCHANGED <<hop, prev, polled, dev0, nops>>
    /\ UNCHANGED rvars

(***************************************************************************)
(* HpmSPMI.write                                                           *)
(***************************************************************************)
\* an offset that does not advance with the bytes written
write_offset_stuck(written) == WRITE_WINDOW

\* 0xA0 + written
write_offset(written) == WRITE_WINDOW + written

\* a chunk one byte short of the 16 a frame carries
write_chunk_short(len, written) == Min(len - written, CHUNK - 1)

\* to_write = min(len(data) - written, 16)
write_chunk(len, written) == Min(len - written, CHUNK)

\* size = self.get_size(reg)
WriteGetSize ==
    /\ At("write", "get_size")
    /\ Call([Top EXCEPT !.pc = "check"], get_size_frame(Top.reg))
    /\ NoBus
    /\ UNCHANGED <<hop, prev, calls, polled, dev0, nops>>
    /\ UNCHANGED rvars

\* assert len(data) <= size; written = 0
WriteCheck ==
    /\ At("write", "check")
    /\ IF Len(Top.data) <= rv
       THEN Go([Top EXCEPT !.pc = "loop", !.size = rv, !.n = 0])
       ELSE Fail("SizeMismatch")
    /\ NoBus
    /\ UNCHANGED <<hop, prev, calls, polled, dev0, nops>>
    /\ UNCHANGED rvars

\* reply = self.spmi.write_ext(...); assert reply; written += to_write
WriteChunk ==
    /\ At("write", "loop")
    /\ Top.n < Len(Top.data)
    /\ LET to_write == write_chunk(Len(Top.data), Top.n)
           b == BusOp("write_ext", write_offset(Top.n), 0,
                      SubSeq(Top.data, Top.n + 1, Top.n + to_write)) IN
       \E o \in BusResults(dev, b, faults, Len(polled)) :
         /\ BusDone(b, o)
         /\ IF o.ret.status # "ok" THEN Fail(o.ret.status)
            ELSE IF o.ret.ack = 0 THEN Fail("WriteRejected")
            ELSE Go([Top EXCEPT !.n = Top.n + to_write])
    /\ UNCHANGED <<hop, prev, calls, polled, dev0, nops>>
    /\ UNCHANGED rvars

\* self.select(reg) # issue write
WriteCommit ==
    /\ At("write", "loop")
    /\ ~(Top.n < Len(Top.data))
    /\ Call([Top EXCEPT !.pc = "ret"], select_frame(Top.reg))
    /\ NoBus
    /\ UNCHANGED <<hop, prev, calls, polled, dev0, nops>>
    /\ UNCHANGED rvars

\* write returns
WriteReturn ==
    /\ At("write", "ret")
    /\ Ret(<<>>)
    /\ calls' = Append(calls, [fn |-> "write", reg |-> Top.reg, data |-> Top.data])
    /\ NoBus
    /\ UNCHANGED <<hop, prev, polled, dev0, nops>>
    /\ UNCHANGED rvars

(***************************************************************************)
(* HpmSPMI.command                                                         *)
(***************************************************************************)
\* self.write(9, data)
CommandWriteData ==
    /\ At("command", "data")
    /\ Call([Top EXCEPT !.pc = "cmd"], write_frame(DATA_REG, Top.data))
    /\ NoBus
    /\ UNCHANGED <<hop, prev, calls, polled, dev0, nops>>
    /\ UNCHANGED rvars

\* assert len(cmd) == 4; self.write(8, cmd)
CommandWriteCmd ==
    /\ At("command", "cmd")
    /\ IF Len(Top.cmd) = 4
       THEN Call([Top EXCEPT !.pc = "select"], write_frame(CMD_REG, Top.cmd))
       ELSE Fail("Precondition")
    /\ NoBus
    /\ UNCHANGED <<hop, prev, calls, polled, dev0, nops>>
    /\ UNCHANGED rvars

\* self.select(8)
CommandSelect ==
    /\ At("command", "select")
    /\ Call([Top EXCEPT !.pc = "poll"], select_frame(CMD_REG))
    /\ NoBus
    /\ UNCHANGED <<hop, prev, calls, polled, dev0, nops>>
    /\ UNCHANGED rvars

\* a loop that waits while the status is zero and completes on the opcode
PollOutcome_zero_waits(rep, cmd) ==
    IF ~AnyByte(rep) THEN "again"
    ELSE IF rep = BangCmd THEN "InvalidCommand"
    ELSE IF rep # cmd THEN "ProtocolMismatch"
    ELSE "done"

\* a loop without the check for '!CMD'
PollOutcome_no_sentinel(rep, cmd) ==
    IF ~AnyByte(rep) THEN "done"
    ELSE IF rep # cmd THEN "ProtocolMismatch"
    ELSE "again"

\* one turn of: while any(rep := read_ext(0x20, 4)):
\*                  assert rep != b'!CMD'; assert rep == cmd
PollOutcome(rep, cmd) ==
    IF ~AnyByte(rep) THEN "done"
    ELSE IF rep = BangCmd THEN "InvalidCommand"
    ELSE IF rep # cmd THEN "ProtocolMismatch"
    ELSE "again"

CommandPoll ==
    /\ At("command", "poll")
    /\ LET b == BusOp("read_ext", READ_WINDOW, 4, <<>>) IN
       \E o \in BusResults(dev, b, faults, Len(polled)) :
         /\ BusDone(b, o)
         /\ IF o.ret.status # "ok"
            THEN Fail(o.ret.status) /\ polled' = polled
            ELSE /\ polled' = Append(polled, o.ret.data)
                 /\ LET out == PollOutcome(o.ret.data, Top.cmd) IN
                      IF out = "again" THEN Go(Top)
                      ELSE IF out = "done" THEN Go([Top EXCEPT !.pc = "read"])
                      ELSE Fail(out)
    /\ UNCHANGED <<hop, prev, calls, dev0, nops>>
    /\ UNCHANGED rvars

\* return self.read(9, out_size): the call
CommandRead ==
    /\ At("command", "read")
    /\ Call([Top EXCEPT !.pc = "ret"], read_frame(DATA_REG, Top.size))
    /\ NoBus
    /\ UNCHANGED <<hop, prev, calls, polled, dev0, nops>>
    /\ UNCHANGED rvars

\* return self.read(9, out_size): the return
CommandReturn ==
    /\ At("command", "ret")
    /\ Ret(rv)
    /\ NoBus
    /\ UNCHANGED <<hop, prev, calls, polled, dev0, nops>>
    /\ UNCHANGED rvars

(***************************************************************************)
(* HpmSPMI.read_events                                                     *)
(***************************************************************************)
\* the set bits of int.from_bytes(evts, 'little'): bit j of byte i is 8 * i + j
BitsOf(bytes) ==
    { k \in 0..(8 * Len(bytes) - 1) : (bytes[(k \div 8) + 1] \div Pow2(k % 8)) % 2 = 1 }

\* the register read_events writes the bytes of base back to
clear_reg(base) == base + 4

\* the blocks joined in the reverse order
join_events_swapped(evts, e) == e \o evts

\* evts += e
join_events(evts, e) == evts \o e

\* e = self.read(base, 9)
EventsRead ==
    /\ At("read_events", "read")
    /\ Call([Top EXCEPT !.pc = "write"], read_frame(EventBases[Top.n + 1], EVENT_BYTES))
    /\ NoBus
    /\ UNCHANGED <<hop, prev, calls, polled, dev0, nops>>
    /\ UNCHANGED rvars

\* self.write(base + 4, e)
EventsWrite ==
    /\ At("read_events", "write")
    /\ Call([Top EXCEPT !.pc = "next", !.e = rv],
            write_frame(clear_reg(EventBases[Top.n + 1]), rv))
    /\ NoBus
    /\ UNCHANGED <<hop, prev, calls, polled, dev0, nops>>
    /\ UNCHANGED rvars

\* evts += e, and the next base or the decoding of the bits
EventsNext ==
    /\ At("read_events", "next")
    /\ IF Top.n + 1 < Len(EventBases)
       THEN Go([Top EXCEPT !.pc = "read", !.n = Top.n + 1,
                           !.data = join_events(Top.data, Top.e)])
       ELSE Ret(BitsOf(join_events(Top.data, Top.e)))
    /\ NoBus
    /\ UNCHANGED <<hop, prev, calls, polled, dev0, nops>>
    /\ UNCHANGED rvars

(***************************************************************************)
(* HpmSPMI.wakeup                                                          *)
(***************************************************************************)
\* reply = self.spmi.wakeup(self.slave); assert reply
WakeupCommand ==
    /\ At("wakeup", "wakeup")
    /\ LET b == BusOp("wakeup", 0, 0, <<>>) IN
       \E o \in BusResults(dev, b, faults, Len(polled)) :
         /\ BusDone(b, o)
         /\ IF o.ret.status # "ok" THEN Fail(o.ret.status)
            ELSE IF o.ret.ack = 0 THEN Fail("WakeupRejected")
            ELSE Go([Top EXCEPT !.pc = "wz", !.n = 0])
    /\ UNCHANGED <<hop, prev, calls, polled, dev0, nops>>
    /\ UNCHANGED rvars

\* reply = self.spmi.write_zero(self.slave, 3); assert reply
WakeupWriteZero ==
    /\ At("wakeup", "wz")
    /\ LET b == BusOp("write_zero", 3, 0, <<>>) IN
       \E o \in BusResults(dev, b, faults, Len(polled)) :
         /\ BusDone(b, o)
         /\ IF o.ret.status # "ok" THEN Fail(o.ret.status)
            ELSE IF o.ret.ack = 0 THEN Fail("WriteZeroRejected")
            ELSE Go([Top EXCEPT !.pc = "rr"])
    /\ UNCHANGED <<hop, prev, calls, polled, dev0, nops>>
    /\ UNCHANGED rvars

\* one try less
wakeup_tries_short == WAKEUP_TRIES - 1

\* the tries wakeup makes before it raises 'did not wake up'
wakeup_tries == WAKEUP_TRIES

\* reg_read = self.spmi.read_reg(self.slave, 0); if reg_read == 3: return
WakeupReadReg ==
    /\ At("wakeup", "rr")
    /\ LET b == BusOp("read_reg", 0, 1, <<>>) IN
       \E o \in BusResults(dev, b, faults, Len(polled)) :
         /\ BusDone(b, o)
         /\ IF o.ret.status # "ok" THEN Fail(o.ret.status)
            ELSE IF o.ret.data[1] = 3 THEN Ret(<<>>)
            ELSE IF Top.n + 1 < wakeup_tries
            THEN Go([Top EXCEPT !.pc = "wz", !.n = Top.n + 1])
            ELSE Fail("WakeupTimeout")
    /\ UNCHANGED <<hop, prev, calls, polled, dev0, nops>>
    /\ UNCHANGED rvars

(***************************************************************************)
(* The caller: top-level operations and their inputs                       *)
(***************************************************************************)
Op(fn, reg, size, data, cmd) ==
    [fn |-> fn, reg |-> reg, size |-> size, data |-> data, cmd |-> cmd, f0 |-> faults]

NoOp == [fn |-> "none", reg |-> 0, size |-> 0, data |-> <<>>, cmd |-> <<>>, f0 |-> 0]

Start(frame, o, limit) ==
    /\ stack = <<>>
    /\ nops < limit
    /\ stack' = <<frame>>
    /\ hop' = o
    /\ prev' = [op |-> hop, ret |-> hret]
    /\ hret' = HNone
    /\ rv' = <<>>
    /\ trace' = <<>>
    /\ calls' = <<>>
    /\ polled' = <<>>
    /\ dev0' = dev
    /\ nops' = nops + 1
    /\ UNCHANGED <<dev, faults>>
    /\ UNCHANGED rvars

\* a payload of n bytes: 254, 253, ...
Fall(n) == [i \in 1..n |-> 255 - i]

ReadRegs == {6, 9, 32, 88}
ReadSizes == {-1, 0, 16, 17, 37, 38, 65}
WriteRegs == {9, 32, 88}
WriteLens == {0, 1, 17, 37, 64, 65}

StartRead ==
    \E reg \in ReadRegs, size \in ReadSizes :
      Start(read_frame(reg, size), Op("read", reg, size, <<>>, <<>>), MaxOps)

StartWrite ==
    \E reg \in WriteRegs, n \in WriteLens :
      Start(write_frame(reg, Fall(n)), Op("write", reg, 0, Fall(n), <<>>), MaxOps)

Opcodes == {SSPS, BangCmd, <<83, 83, 80>>}
Payloads == {<<>>, <<0>>}
OutSizes == {0, 4}

StartCommand ==
    \E cmd \in Opcodes, data \in Payloads, out_size \in OutSizes :
      Start(Frame("command", "data", 0, out_size, data, cmd),
            Op("command", 0, out_size, data, cmd), MaxRuns)

StartReadEvents ==
    Start(Frame("read_events", "read", 0, 0, <<>>, <<>>),
          Op("read_events", 0, 0, <<>>, <<>>), MaxRuns)

StartWakeup ==
    Start(Frame("wakeup", "wakeup", 0, 0, <<>>, <<>>),
          Op("wakeup", 0, 0, <<>>, <<>>), MaxRuns)

(***************************************************************************)
(* Initial states                                                          *)
(***************************************************************************)
\* 13-byte event shadows: no event; bits 3 and 40; bits 0, 64, 71 and, past
\* the 9 bytes read_events reads, bits 72..79
NoEvents == Zeros(13)
Events_3_40 == <<8, 0, 0, 0, 0, 1, 0, 0, 0, 0, 0, 0, 0>>
Events_0_64_71 == <<1, 0, 0, 0, 0, 0, 0, 0, 129, 255, 0, 0, 0>>
EventPatterns == {NoEvents, Events_3_40, Events_0_64_71}

DevInit(settle, ev14, ev15) ==
    [sel |-> 0,
     staged |-> <<>>,
     settle |-> settle,
     busy |-> FALSE,
     regs |-> [r \in DevRegs |->
                 CASE r = 20 -> ev14
                   [] r = 21 -> ev15
                   [] r \in {8, 24, 25} -> Zeros(RegSize(r))
                   [] OTHER -> [i \in 1..RegSize(r) |-> (r + i) % 256]]]

\* nothing has happened on the controller yet
NoHist == [n0 |-> 0, left0 |-> 0, drained |-> FALSE, answer |-> <<>>,
           regular |-> TRUE, clean |-> TRUE, done |-> FALSE]

\* a caller that has not entered raw_command: its position and its locals
ParIdle == [pc |-> "idle", arg |-> NoArg, reply |-> <<>>, buf |-> <<>>,
            left |-> 0, ret |-> NoRet]

\* two callers outside raw_command, both FIFOs empty; mixed: two calls have
\* been in progress at the same time; n: calls made so far
NoPar == [c |-> <<ParIdle, ParIdle>>, rx |-> <<>>, wire |-> <<>>, mixed |-> FALSE,
          n |-> 0]

RawIdle ==
    /\ rx = <<>>
    /\ tx = <<>>
    /\ rpc = "idle"
    /\ rarg = NoArg
    /\ rdata = <<>>
    /\ rreply = <<>>
    /\ rbuf = <<>>
    /\ rleft = 0
    /\ polls = 0
    /\ rret = NoRet
    /\ answered = FALSE
    /\ hist = NoHist
    /\ par = NoPar

HpmIdle(d) ==
    /\ stack = <<>>
    /\ rv = <<>>
    /\ hop = NoOp
    /\ hret = HNone
    /\ prev = [op |-> NoOp, ret |-> HNone]
    /\ trace = <<>>
    /\ calls = <<>>
    /\ polled = <<>>
    /\ dev = d
    /\ dev0 = d
    /\ faults = 0
    /\ nops = 0

(***************************************************************************)
(* The controller-level specification: raw_command against the FIFOs       *)
(***************************************************************************)
InitRaw == RawIdle /\ HpmIdle(DevInit(0, NoEvents, NoEvents))

NextRaw ==
    \/ RawCall
    \/ Drain
    \/ SendCommand
    \/ SendPayload
    \/ RawReadEmpty
    \/ RawReadTimeout
    \/ ReadReply
    \/ ReadData
    \/ DeviceAnswer
    \/ DeviceStray

SpecRaw == InitRaw /\ [][NextRaw]_vars

(***************************************************************************)
(* read and write of registers                                             *)
(***************************************************************************)
InitRW == RawIdle /\ HpmIdle(DevInit(0, NoEvents, NoEvents))

NextRW ==
    \/ StartRead
    \/ StartWrite
    \/ SelectWriteZero
    \/ SelectReadReg
    \/ GetSizeSelect
    \/ GetSizeReadReg
    \/ ReadGetSize
    \/ ReadCheck
    \/ ReadChunk
    \/ ReadReturn
    \/ WriteGetSize
    \/ WriteCheck
    \/ WriteChunk
    \/ WriteCommit
    \/ WriteReturn

SpecRW == InitRW /\ [][NextRW]_vars

(***************************************************************************)
(* command                                                                 *)
(***************************************************************************)
InitCommand == RawIdle /\ HpmIdle(DevInit(0, NoEvents, NoEvents))

NextCommand ==
    \/ StartCommand
    \/ SelectWriteZero
    \/ SelectReadReg
    \/ GetSizeSelect
    \/ GetSizeReadReg
    \/ ReadGetSize
    \/ ReadCheck
    \/ ReadChunk
    \/ ReadReturn
    \/ WriteGetSize
    \/ WriteCheck
    \/ WriteChunk
    \/ WriteCommit
    \/ WriteReturn
    \/ CommandWriteData
    \/ CommandWriteCmd
    \/ CommandSelect
    \/ CommandPoll
    \/ CommandRead
    \/ CommandReturn

SpecCommand == InitCommand /\ [][NextCommand]_vars

(***************************************************************************)
(* read_events                                                             *)
(***************************************************************************)
InitEvents ==
    /\ RawIdle
    /\ \E ev14 \in EventPatterns, ev15 \in EventPatterns :
         HpmIdle(DevInit(0, ev14, ev15))

NextEvents ==
    \/ StartReadEvents
    \/ SelectWriteZero
    \/ SelectReadReg
    \/ GetSizeSelect
    \/ GetSizeReadReg
    \/ ReadGetSize
    \/ ReadCheck
    \/ ReadChunk
    \/ ReadReturn
    \/ WriteGetSize
    \/ WriteCheck
    \/ WriteChunk
    \/ WriteCommit
    \/ WriteReturn
    \/ EventsRead
    \/ EventsWrite
    \/ EventsNext

SpecEvents == InitEvents /\ [][NextEvents]_vars

(***************************************************************************)
(* command and read_events, with the reads and writes they are made of     *)
(***************************************************************************)
InitHpm == InitEvents

NextHpm ==
    \/ StartCommand
    \/ StartReadEvents
    \/ SelectWriteZero
    \/ SelectReadReg
    \/ GetSizeSelect
    \/ GetSizeReadReg
    \/ ReadGetSize
    \/ ReadCheck
    \/ ReadChunk
    \/ ReadReturn
    \/ WriteGetSize
    \/ WriteCheck
    \/ WriteChunk
    \/ WriteCommit
    \/ WriteReturn
    \/ CommandWriteData
    \/ CommandWriteCmd
    \/ CommandSelect
    \/ CommandPoll
    \/ CommandRead
    \/ CommandReturn
    \/ EventsRead
    \/ EventsWrite
    \/ EventsNext

SpecHpm == InitHpm /\ [][NextHpm]_vars

(***************************************************************************)
(* wakeup                                                                  *)
(***************************************************************************)
InitWakeup ==
    /\ RawIdle
    /\ \E settle \in 0..MaxSettle : HpmIdle(DevInit(settle, NoEvents, NoEvents))

NextWakeup ==
    \/ StartWakeup
    \/ WakeupCommand
    \/ WakeupWriteZero
    \/ WakeupReadReg

SpecWakeup == InitWakeup /\ [][NextWakeup]_vars

(***************************************************************************)
(* Controller-level specification with the controller's own steps fair:    *)
(* the driver is single-threaded and runs whenever it can take a step      *)
(***************************************************************************)
RawProgress ==
    \/ Drain
    \/ SendCommand
    \/ SendPayload
    \/ RawReadEmpty
    \/ RawReadTimeout
    \/ ReadReply
    \/ ReadData

LiveRaw == InitRaw /\ [][NextRaw]_vars /\ WF_vars(RawProgress)

(***************************************************************************)
(* Two callers of raw_command on the same controller. The device and the   *)
(* bus are faultless: every command word is served, in order, with the     *)
(* reply word and the data words of that command, within the polls of one  *)
(* raw_read.                                                               *)
(***************************************************************************)
\* the commands the two callers issue (none carries a payload)
ParCalls ==
    { simple_cmd(Slave, CMD_WAKEUP),
      read_ext(Slave, READ_WINDOW, 4), read_ext(Slave, READ_WINDOW + CHUNK, 4) }

\* calls of raw_command in one run of the two callers
MaxCalls == 5

\* caller me has left raw_command with the outcome ret: its locals are gone
ParLeft(me, ret) == [ParIdle EXCEPT !.arg = me.arg, !.ret = ret]

\* the data the device returns for the command a: it depends on the address
ParData(a) == [i \in 1..a.size |-> (a.extra + i) % 256]

\* the words the device queues for the command word w
ParAnswer(w) ==
    LET a == CHOOSE a \in ParCalls : TxWords(a)[1] = w
    IN  <<R_REPLY(ExpectedParity(a.size), 1, a.slave, a.cmd)>> \o Words(ParData(a))

\* the controller state and the HPM layer, which the two callers do not use
ParFrame ==
    /\ UNCHANGED <<rx, tx, rpc, rarg, rdata, rreply, rbuf, rleft, polls, rret,
                   answered, hist>>
    /\ UNCHANGED hvars

\* caller i enters raw_command
ParCall(i) ==
    /\ par.c[i].pc = "idle"
    /\ par.n < MaxCalls
    /\ \E a \in ParCalls :
         par' = [par EXCEPT !.c[i] = [ParIdle EXCEPT !.pc = "drain", !.arg = a],
                            !.mixed = @ \/ par.c[3 - i].pc # "idle",
                            !.n = @ + 1]
    /\ ParFrame

\* while not RX_EMPTY: print(">", REPLY.val)
ParDrain(i) ==
    /\ par.c[i].pc = "drain"
    /\ par.rx # <<>>
    /\ par' = [par EXCEPT !.rx = Tail(@)]
    /\ ParFrame

\* the range assertion and the write of the command word
ParSend(i) ==
    /\ par.c[i].pc = "drain"
    /\ par.rx = <<>>
    /\ LET a == par.c[i].arg IN
         IF a.slave \in 0..15 /\ a.cmd \in 0..255 /\ a.extra \in 0..65535
         THEN par' = [par EXCEPT !.c[i].pc = "reply",
                                 !.wire = Append(@, R_CMD(a.extra, 1, a.slave, a.cmd))]
         ELSE par' = [par EXCEPT !.c[i] = ParLeft(@, Raise("Precondition"))]
    /\ ParFrame

\* raw_read finds a word: the reply word with its two checks, or a data word
ParRead(i) ==
    /\ par.c[i].pc \in {"reply", "data"}
    /\ par.rx # <<>>
    /\ LET me == par.c[i]
           w == Head(par.rx)
           out == ReplyOutcome(me.arg, w)
           buf == me.buf \o Pack(w)
           new == IF me.pc = "reply"
                  THEN IF out # "ok"
                       THEN ParLeft(me, Raise(out))
                       ELSE IF me.arg.size > 0
                       THEN [me EXCEPT !.pc = "data", !.reply = w, !.left = me.arg.size]
                       ELSE ParLeft(me, Finish(w, <<>>, me.arg.size))
                  ELSE IF me.left - 4 > 0
                       THEN [me EXCEPT !.buf = buf, !.left = me.left - 4]
                       ELSE ParLeft(me, Finish(me.reply, buf, me.arg.size))
       IN  par' = [par EXCEPT !.c[i] = new, !.rx = Tail(@)]
    /\ ParFrame

\* raw_read gives up: its 1000 attempts found the RX FIFO empty, which takes
\* that the device has no command left to serve
ParTimeout(i) ==
    /\ par.c[i].pc \in {"reply", "data"}
    /\ par.rx = <<>>
    /\ par.wire = <<>>
    /\ par' = [par EXCEPT !.c[i] = ParLeft(@, Raise("Timeout"))]
    /\ ParFrame

\* the device serves the oldest command word
ParServe ==
    /\ par.wire # <<>>
    /\ par' = [par EXCEPT !.wire = Tail(@), !.rx = @ \o ParAnswer(Head(par.wire))]
    /\ ParFrame

InitPar == RawIdle /\ HpmIdle(DevInit(0, NoEvents, NoEvents))

NextPar ==
    \/ \E i \in {1, 2} : ParCall(i)
    \/ \E i \in {1, 2} : ParDrain(i)
    \/ \E i \in {1, 2} : ParSend(i)
    \/ \E i \in {1, 2} : ParRead(i)
    \/ \E i \in {1, 2} : ParTimeout(i)
    \/ ParServe

SpecPar == InitPar /\ [][NextPar]_vars

(***************************************************************************)
(* Properties                                                              *)
(***************************************************************************)
Last(q) == q[Len(q)]

\* the top-level operation fn has ended / has returned a value
Finished(fn) == stack = <<>> /\ hop.fn = fn /\ hret.status # "none"
Succeeded(fn) == Finished(fn) /\ hret.status = "ok"

IsReadExt(e) == e.op = "read_ext"
IsWriteExt(e) == e.op = "write_ext"
IsWriteZero(e) == e.op = "write_zero"
IsReadReg0(e) == e.op = "read_reg" /\ e.reg = 0

\* the read_ext frames the operation has issued
ReadFrames == SelectSeq(trace, IsReadExt)

RECURSIVE SumSizes(_, _)
SumSizes(fr, j) == IF j = 0 THEN 0 ELSE fr[j].size + SumSizes(fr, j - 1)

RECURSIVE ConcatVals(_)
ConcatVals(fr) == IF fr = <<>> THEN <<>> ELSE Head(fr).val \o ConcatVals(Tail(fr))

(* ---- C1 ---- *)
\* a write(reg, data) that succeeded, then a read(reg) with the automatic
\* size that succeeded, on a register of capacity 1..64 and with no fault
WriteThenRead ==
    /\ Succeeded("read")
    /\ hop.size = -1
    /\ prev.op.fn = "write"
    /\ prev.ret.status = "ok"
    /\ prev.op.reg = hop.reg
    /\ faults = 0
    /\ RegSize(hop.reg) >= 1

\* C1 as stated: write(reg, data) followed by read(reg) returns exactly
\* data, for every data of length <= the capacity C, lengths < C included.
C1_WriteReadReturnsData == WriteThenRead => hret.value = prev.op.data

\* C1 as amended: write(reg, data) followed by read(reg) returns C bytes,
\* the capacity of the register, and the first len(data) of them are data;
\* so it returns exactly data if and only if len(data) = C.
C1_WriteReadReturnsCapacity ==
    WriteThenRead =>
      /\ Len(hret.value) = RegSize(hop.reg)
      /\ Take(hret.value, Len(prev.op.data)) = prev.op.data
      /\ (hret.value = prev.op.data) <=> (Len(prev.op.data) = RegSize(hop.reg))

C1_Witness ==
    /\ WriteThenRead
    /\ Len(prev.op.data) = 17
    /\ RegSize(hop.reg) = 37

(* ---- C2 ---- *)
\* a raw_command has ended after reading a reply word whose SLAVE_ID and CMD
\* match the command
ParityDecided ==
    /\ rpc = "idle"
    /\ rret.status # "none"
    /\ rreply # <<>>
    /\ SLAVE_ID(rreply) = rarg.slave
    /\ CMD(rreply) = rarg.cmd

\* C2 as stated: the call fails with FrameParity if and only if FRAME_PARITY
\* differs from (1 << ceil(expected_size / 4)) - 1, one bit per 4-byte frame.
C2_ParityPerWord ==
    ParityDecided =>
      ((rret.status = "FrameParity")
         <=> (FRAME_PARITY(rreply) # Pow2((rarg.size + 3) \div 4) - 1))

\* C2 as amended: the call fails with FrameParity if and only if FRAME_PARITY
\* differs from (1 << expected_size) - 1, one bit per expected reply byte.
C2_ParityPerByte ==
    ParityDecided =>
      ((rret.status = "FrameParity") <=> (FRAME_PARITY(rreply) # Pow2(rarg.size) - 1))

C2_Witness ==
    /\ ParityDecided
    /\ rarg.size = 16
    /\ FRAME_PARITY(rreply) = 15
    /\ rret.status = "FrameParity"

(* ---- C3 ---- *)
\* C3 as stated: the status is polled only while it is all-zero, and a
\* command that returns a value has seen a last status equal to the opcode.
C3_PollWhileZero ==
    hop.fn = "command" =>
      /\ \A i \in 1..(Len(polled) - 1) : ~AnyByte(polled[i])
      /\ Succeeded("command") => (polled # <<>> /\ Last(polled) = hop.cmd)

\* C3 as amended: the status is polled again only while it is non-zero and
\* equal to the opcode (and not '!CMD'); the first other status decides: an
\* all-zero status means the command has completed and the result of
\* read(9, out_size) is returned, '!CMD' fails with InvalidCommand, any other
\* non-zero value that differs from the opcode fails with ProtocolMismatch.
C3_PollWhileOpcode ==
    hop.fn = "command" =>
      /\ \A i \in 1..(Len(polled) - 1) :
           AnyByte(polled[i]) /\ polled[i] = hop.cmd /\ polled[i] # BangCmd
      /\ Succeeded("command") =>
           /\ polled # <<>>
           /\ ~AnyByte(Last(polled))
           /\ calls # <<>>
           /\ Last(calls) = [fn |-> "read", reg |-> DATA_REG, data |-> hret.value]
           /\ hop.size >= 0 => Len(hret.value) = hop.size
      /\ (polled # <<>> /\ Last(polled) = BangCmd) => hret.status = "InvalidCommand"
      /\ (polled # <<>> /\ AnyByte(Last(polled)) /\ Last(polled) # BangCmd
            /\ Last(polled) # hop.cmd) => hret.status = "ProtocolMismatch"
      /\ hret.status \in {"InvalidCommand", "ProtocolMismatch"} =>
           (polled # <<>> /\ AnyByte(Last(polled)))

C3_Witness ==
    /\ Succeeded("command")
    /\ hop.cmd = SSPS
    /\ hop.size = 4
    /\ Len(polled) = 3
    /\ polled[1] = SSPS

(* ---- C4 ---- *)
\* C4: once a status poll of command() has returned '!CMD', the call has
\* failed with InvalidCommand and that poll is the last bus command it
\* issued: no select, size query or read_ext of read(9, out_size) follows.
C4_InvalidCommandStops ==
    (hop.fn = "command" /\ polled # <<>> /\ Last(polled) = BangCmd) =>
      /\ stack = <<>>
      /\ hret.status = "InvalidCommand"
      /\ Last(trace).op = "read_ext"
      /\ Last(trace).reg = 32
      /\ Last(trace).size = 4
      /\ Last(trace).val = BangCmd
      /\ \A i \in 1..Len(calls) : calls[i].fn # "read"

C4_Witness ==
    /\ hop.fn = "command"
    /\ hop.cmd = SSPS
    /\ polled = <<BangCmd>>
    /\ stack = <<>>

(* ---- C5 ---- *)
\* C5: with every command acknowledged and a device whose read_reg(0)
\* returns 3 first on the k-th attempt, wakeup() succeeds iff k <= 10, after
\* exactly k write_zero(3) / read_reg(0) pairs; for k > 10 it fails with
\* WakeupTimeout after exactly 10 pairs.
C5_WakeupWithinTen ==
    (Finished("wakeup") /\ faults = hop.f0) =>
      LET k == dev0.settle + 1
          wz == SelectSeq(trace, IsWriteZero)
          rr == SelectSeq(trace, IsReadReg0)
      IN  /\ (hret.status = "ok") <=> (k <= 10)
          /\ Len(wz) = Len(rr)
          /\ \A i \in 1..Len(wz) : wz[i].reg = 3
          /\ \A i \in 1..Len(rr) : trace[2 * i] = wz[i] /\ trace[2 * i + 1] = rr[i]
          /\ hret.status = "ok" => Len(rr) = k
          /\ hret.status # "ok" => (hret.status = "WakeupTimeout" /\ Len(rr) = 10)

C5_Witness ==
    /\ Finished("wakeup")
    /\ faults = hop.f0
    /\ dev0.settle + 1 = 10
    /\ hret.status = "ok"
    /\ Len(trace) = 21

(* ---- C6 ---- *)
\* C6: every raw_command that has been entered ends, with a result or an
\* error, whatever the device and the RX FIFO do.
C6_RawCommandEnds == (rpc # "idle") ~> (rpc = "idle")

(* ---- C7 ---- *)
\* bit i of a byte string read as a little-endian number
BitSet(bytes, i) == (bytes[(i \div 8) + 1] \div Pow2(i % 8)) % 2 = 1

\* C7: a read_events() that succeeds returns the set bits of the 9 bytes read
\* from 0x14 followed by the 9 bytes read from 0x15 (bit i of 0x15 is 72 + i),
\* which without a fault, on a device holding no bytes staged by an earlier
\* write whose commit was lost, are the shadow values the device held; and it makes
\* exactly these calls, in this order: read(0x14, 9), write(0x18, the bytes
\* just read), read(0x15, 9), write(0x19, the bytes just read).
C7_EventsDecodedAndCleared ==
    Succeeded("read_events") =>
      /\ Len(calls) = 4
      /\ LET e14 == calls[1].data
             e15 == calls[3].data
         IN  /\ Len(e14) = 9
             /\ Len(e15) = 9
             /\ (faults = hop.f0 /\ dev0.staged = <<>>) =>
                  (e14 = Take(dev0.regs[20], 9) /\ e15 = Take(dev0.regs[21], 9))
             /\ hret.value = { i \in 0..71 : BitSet(e14, i) }
                             \cup { 72 + i : i \in { j \in 0..71 : BitSet(e15, j) } }
             /\ calls = << [fn |-> "read", reg |-> 20, data |-> e14],
                           [fn |-> "write", reg |-> 24, data |-> e14],
                           [fn |-> "read", reg |-> 21, data |-> e15],
                           [fn |-> "write", reg |-> 25, data |-> e15] >>
             /\ Len(SelectSeq(trace, IsWriteExt)) = 2
             /\ SelectSeq(trace, IsWriteExt)[1].data = e14
             /\ SelectSeq(trace, IsWriteExt)[2].data = e15
             /\ (~AnyByte(e14) /\ ~AnyByte(e15)) => hret.value = {}

C7_Witness ==
    /\ Succeeded("read_events")
    /\ faults = 0
    /\ dev0.regs[20] = Events_3_40
    /\ dev0.regs[21] = Events_0_64_71
    /\ hret.value = {3, 40, 72, 136, 143}

(* ---- C8 ---- *)
\* C8: an operation that fails has caused no device-visible effect; for
\* read_events(): when it fails while processing base 0x15 (after the read
\* and the write-back of base 0x14 have returned), no event bit of base 0x14
\* has been cleared on the device.
C8_FailedEventsClearNothing ==
    (Finished("read_events") /\ hret.status # "ok" /\ Len(calls) >= 2) =>
      dev.regs[20] = dev0.regs[20]

(* ---- C9 ---- *)
\* the <<size, offset>> of the read_ext frames issued
FrameShape == [i \in 1..Len(ReadFrames) |-> <<ReadFrames[i].size, ReadFrames[i].reg>>]

\* C9 as stated: read(reg, size=37) issues exactly 3 read_ext frames, of sizes
\* 16, 16, 5 at offsets 0x20, 0x30, 0x35.
C9_Frames37AtOffset35 ==
    (Succeeded("read") /\ hop.size = 37) =>
      FrameShape = << <<16, 32>>, <<16, 48>>, <<5, 53>> >>

\* C9 as amended: read(reg, size=37) issues exactly 3 read_ext frames, of
\* sizes 16, 16, 5 at offsets 0x20, 0x30, 0x40.
C9_Frames37AtOffset40 ==
    (Succeeded("read") /\ hop.size = 37) =>
      FrameShape = << <<16, 32>>, <<16, 48>>, <<5, 64>> >>

C9_Witness ==
    /\ Succeeded("read")
    /\ hop.size = 37
    /\ hop.reg = 88
    /\ Len(hret.value) = 37

(* ---- C10 ---- *)
\* the size a read that passed its check transfers: the one asked for, or
\* with the automatic size the capacity the size query returned
AskedSize == IF hop.size = -1 THEN trace[3].val[1] ELSE hop.size

\* C10: a read(reg, s) that succeeds has issued exactly ceil(s / 16) read_ext
\* frames after the size query, frame j at offset 0x20 + (bytes of the frames
\* before it) with size min(16, s - those bytes), and returns the frames'
\* data concatenated in issue order, s bytes in all.
C10_ReadChunks ==
    Succeeded("read") =>
      /\ Len(ReadFrames) = (AskedSize + 15) \div 16
      /\ \A j \in 1..Len(ReadFrames) :
           /\ ReadFrames[j].reg = 32 + SumSizes(ReadFrames, j - 1)
           /\ ReadFrames[j].size = Min(16, AskedSize - SumSizes(ReadFrames, j - 1))
           /\ Len(ReadFrames[j].val) = ReadFrames[j].size
      /\ \A i \in 1..Len(trace) : IsReadExt(trace[i]) => i > 3
      /\ hret.value = ConcatVals(ReadFrames)
      /\ Len(hret.value) = AskedSize

C10_Witness ==
    /\ Succeeded("read")
    /\ hop.size = 17
    /\ Len(ReadFrames) = 2
    /\ ReadFrames[2].size = 1
    /\ ReadFrames[2].reg = 48

(* ---- C11 ---- *)
\* the write_ext frames the operation has issued
WriteFrames == SelectSeq(trace, IsWriteExt)

\* entries i and i + 1 of the trace are a select(reg) that was confirmed
ConfirmedSelectAt(i, reg) ==
    /\ i + 1 <= Len(trace)
    /\ trace[i].op = "write_zero"
    /\ trace[i].reg = reg
    /\ trace[i].status = "ok"
    /\ trace[i].ack = 1
    /\ trace[i + 1].op = "read_reg"
    /\ trace[i + 1].reg = 0
    /\ trace[i + 1].status = "ok"
    /\ trace[i + 1].val = <<reg>>

\* number of 16-byte chunks of n bytes
Chunks(n) == (n + 15) \div 16

\* C11: a write(reg, data) that succeeds has issued select(reg), the size
\* query, then ceil(len(data) / 16) write_ext frames of up to 16 bytes at
\* offsets 0xA0 + bytes written that cover data in order without gap or
\* overlap, then exactly one final select(reg); and whether it succeeds or
\* not, a selection after the size query is issued only after every chunk
\* has been issued and acknowledged, also when data is empty.
C11_WriteSequence ==
    hop.fn = "write" =>
      LET n == Chunks(Len(hop.data)) IN
      /\ Succeeded("write") =>
           /\ Len(trace) = 3 + n + 2
           /\ ConfirmedSelectAt(1, hop.reg)
           /\ trace[3].op = "read_reg" /\ trace[3].reg = 31
           /\ ConfirmedSelectAt(4 + n, hop.reg)
      /\ \A i \in 4..Len(trace) :
           trace[i].op = "write_zero" =>
             /\ i = 4 + n
             /\ trace[i].reg = hop.reg
             /\ \A j \in 1..n :
                  /\ trace[3 + j].op = "write_ext"
                  /\ trace[3 + j].reg = 160 + 16 * (j - 1)
                  /\ trace[3 + j].data =
                       SubSeq(hop.data, 16 * (j - 1) + 1, Min(16 * j, Len(hop.data)))
                  /\ trace[3 + j].status = "ok"
                  /\ trace[3 + j].ack = 1

C11_Witness ==
    /\ Succeeded("write")
    /\ Len(hop.data) = 37
    /\ Len(WriteFrames) = 3
    /\ WriteFrames[3].reg = 192
    /\ Len(WriteFrames[3].data) = 5
    /\ Len(trace) = 8

(* ---- C12 ---- *)
\* a raw_command has ended, with a result or an error
RawEnded == rpc = "idle" /\ rret.status # "none"

\* C12: whatever number n of words is queued in the RX FIFO when raw_command
\* starts, all n have been read and discarded before the command word is
\* written to the TX FIFO, and the outcome of the call is the one the same
\* call has when it starts with an empty RX FIFO and the device gives the
\* same answer: it is decoded from the words of the answer alone.
C12_DrainBeforeSend ==
    /\ tx # <<>> => hist.left0 = 0
    /\ RawEnded => rret = raw_command(rarg, hist.answer)

C12_Witness ==
    /\ RawEnded
    /\ hist.n0 = MaxRx
    /\ hist.drained
    /\ rarg.size = 5
    /\ rret = Return(1, Ramp(5))

(* ---- C13 ---- *)
\* the reply word the call has read names another slave or another command
IdentityDiffers ==
    /\ rreply # <<>>
    /\ ~(SLAVE_ID(rreply) = rarg.slave /\ CMD(rreply) = rarg.cmd)

\* C13: when the SLAVE_ID or the CMD of the first reply word differs from the
\* slave or the opcode of the command sent, raw_command fails with
\* ProtocolMismatch, whatever the FRAME_PARITY of that word is; it has read
\* no further word from the RX FIFO (the words that followed the reply are
\* still queued) and returns no data. It fails so in no other case.
C13_IdentityFirst ==
    /\ IdentityDiffers =>
         /\ rpc = "idle"
         /\ rret = Raise("ProtocolMismatch")
         /\ rbuf = <<>>
         /\ Take(rx, Len(hist.answer) - 1) = Tail(hist.answer)
    /\ rret.status = "ProtocolMismatch" => IdentityDiffers

C13_Witness ==
    /\ IdentityDiffers
    /\ rarg.size = 16
    /\ FRAME_PARITY(rreply) # ExpectedParity(16)
    /\ rret.status = "ProtocolMismatch"
    /\ Len(rx) = 4

(* ---- C14 ---- *)
\* the call has read a reply word that passed both checks and has not timed
\* out waiting for a data word
DataPulled ==
    /\ RawEnded
    /\ rreply # <<>>
    /\ SLAVE_ID(rreply) = rarg.slave
    /\ CMD(rreply) = rarg.cmd
    /\ FRAME_PARITY(rreply) = Pow2(rarg.size) - 1
    /\ rret.status # "Timeout"

\* byte j (0 = least significant) of the 32-bit word w
ByteOf(w, j) == (w[(j \div 2) + 1] \div Pow2(8 * (j % 2))) % 256

\* C14: after a valid reply word raw_command reads exactly ceil(size / 4)
\* further words (the words after them stay queued), buf is their bytes,
\* least significant byte of each word first, and the call returns
\* (ACK bit, buf[:size]), or fails with Padding and returns nothing if and
\* only if a byte of buf beyond size is non-zero.
C14_DataWords ==
    DataPulled =>
      LET n == (rarg.size + 3) \div 4 IN
      /\ Len(rbuf) = 4 * n
      /\ \A k \in 1..Len(rbuf) :
           rbuf[k] = ByteOf(hist.answer[1 + ((k + 3) \div 4)], (k - 1) % 4)
      /\ Take(rx, Len(hist.answer) - 1 - n) = Drop(hist.answer, 1 + n)
      /\ rret.status \in {"ok", "Padding"}
      /\ (rret.status = "Padding") <=> (\E k \in (rarg.size + 1)..Len(rbuf) : rbuf[k] # 0)
      /\ rret.status = "ok" =>
           /\ rret.ack = ACK(rreply)
           /\ rret.data = [k \in 1..rarg.size |-> rbuf[k]]
      /\ rret.status = "Padding" => rret.data = <<>>

C14_Witness ==
    /\ DataPulled
    /\ rarg.size = 10
    /\ Len(hist.answer) = 5
    /\ rx = <<ExtraWord>>
    /\ rret = Return(0, Ramp(10))

(* ---- C15 ---- *)
\* entry i of the trace is a size query or a data frame
IsTransfer(e) ==
    \/ e.op \in {"read_ext", "write_ext"}
    \/ e.op = "read_reg" /\ e.reg = 31

\* C15: select(reg) issues write_zero(reg) and then read_reg(0); it fails
\* with a Selection error when the write_zero is not acknowledged and when
\* the value read back is not reg, and with that error in no other case; so
\* read and write issue the size query and every data frame only after a
\* select(reg) whose read-back was reg.
C15_SelectConfirmed ==
    hop.fn \in {"read", "write"} =>
      /\ \A i \in 1..Len(trace) :
           /\ IsTransfer(trace[i]) => (i >= 3 /\ ConfirmedSelectAt(1, hop.reg))
           /\ (trace[i].op = "read_reg" /\ trace[i].reg = 0) =>
                /\ i >= 2
                /\ trace[i - 1].op = "write_zero"
                /\ trace[i - 1].reg = hop.reg
                /\ trace[i - 1].status = "ok"
                /\ trace[i - 1].ack = 1
           /\ (trace[i].op = "write_zero" /\ i < Len(trace)) =>
                (trace[i + 1].op = "read_reg" /\ trace[i + 1].reg = 0)
      /\ (trace # <<>> /\ Last(trace).op = "write_zero"
            /\ Last(trace).status = "ok" /\ Last(trace).ack = 0) =>
           (stack = <<>> /\ hret.status = "Selection")
      /\ (trace # <<>> /\ Last(trace).op = "read_reg" /\ Last(trace).reg = 0
            /\ Last(trace).status = "ok" /\ Last(trace).val # <<hop.reg>>) =>
           (stack = <<>> /\ hret.status = "Selection")
      /\ hret.status = "Selection" =>
           /\ Last(trace).status = "ok"
           /\ \/ Last(trace).op = "write_zero" /\ Last(trace).ack = 0
              \/ /\ Last(trace).op = "read_reg"
                 /\ Last(trace).reg = 0
                 /\ Last(trace).val # <<hop.reg>>

C15_Witness ==
    /\ Finished("read")
    /\ hret.status = "Selection"
    /\ Len(trace) = 2
    /\ trace[1].ack = 1
    /\ trace[2].val # <<hop.reg>>
    /\ hop.reg = 88

(* ---- C16 ---- *)
RECURSIVE SumLens(_, _)
SumLens(fr, j) == IF j = 0 THEN 0 ELSE Len(fr[j].data) + SumLens(fr, j - 1)

\* the size query of the running read or write has been answered
SizeQueried ==
    /\ Len(trace) >= 3
    /\ trace[3].op = "read_reg"
    /\ trace[3].reg = 31
    /\ trace[3].status = "ok"

\* the capacity the device reported
Reported == trace[3].val[1]

\* the bytes the caller asks to transfer (-1: as many as the capacity)
Asked == IF hop.fn = "read" THEN hop.size ELSE Len(hop.data)

\* C16: a read with an explicit size, or a write with data, larger than the
\* capacity the size query reported fails with SizeMismatch right after the
\* size query: no read_ext or write_ext frame and no commit selection is
\* issued; a reported capacity above 64 fails the size query itself; so the
\* frames of one read or write never carry more than 64 bytes in all, and
\* never more than the reported capacity.
C16_SizeChecksFirst ==
    hop.fn \in {"read", "write"} =>
      /\ (SizeQueried /\ Reported <= 64 /\ Asked > Reported) =>
           /\ Len(trace) = 3
           /\ stack = <<>> => hret.status = "SizeMismatch"
           /\ stack # <<>> => (Len(stack) = 1 /\ Top.pc = "check")
      /\ (SizeQueried /\ Reported > 64) =>
           (stack = <<>> /\ hret.status = "SizeOverflow" /\ Len(trace) = 3)
      /\ hret.status = "SizeMismatch" => (SizeQueried /\ Asked > Reported)
      /\ (ReadFrames # <<>> \/ WriteFrames # <<>>) =>
           /\ SizeQueried
           /\ Asked <= Reported
           /\ Reported <= 64
           /\ SumSizes(ReadFrames, Len(ReadFrames)) <= Reported
           /\ SumLens(WriteFrames, Len(WriteFrames)) <= Reported

C16_Witness ==
    /\ Finished("write")
    /\ Len(hop.data) = 65
    /\ hop.reg = 9
    /\ SizeQueried
    /\ Reported = 64
    /\ hret.status = "SizeMismatch"
    /\ Len(trace) = 3
    /\ dev.staged = <<>>

(* ---- C19 ---- *)
\* C19: every read_ext frame of read has its offset in 0x20..0x50 and ends
\* at or below 0x60, every write_ext frame of write has its offset in
\* 0xA0..0xD0 and ends at or below 0xE0, so the two windows do not overlap;
\* and every chunk meets the assertion of its wrapper (1 <= size <= 16,
\* 0 <= reg < 0x100): no bus command of read or write fails on it.
C19_WindowsBounded ==
    hop.fn \in {"read", "write"} =>
      \A i \in 1..Len(trace) :
        /\ trace[i].status # "Precondition"
        /\ trace[i].op = "read_ext" =>
             /\ trace[i].reg \in 32..80
             /\ trace[i].reg + trace[i].size <= 96
             /\ trace[i].size \in 1..16
        /\ trace[i].op = "write_ext" =>
             /\ trace[i].reg \in 160..208
             /\ trace[i].reg + Len(trace[i].data) <= 224
             /\ Len(trace[i].data) \in 1..16

C19_Witness ==
    /\ Succeeded("write")
    /\ hop.reg = 9
    /\ Len(hop.data) = 64
    /\ Len(WriteFrames) = 4
    /\ WriteFrames[4].reg = 208
    /\ Len(WriteFrames[4].data) = 16
    /\ prev.op.fn = "read"
    /\ prev.op.size = -1
    /\ prev.op.reg = 9
    /\ prev.ret.status = "ok"
    /\ Len(prev.ret.value) = 64

(* ---- C20 ---- *)
\* a read or a write is in its transfer loop
InTransfer(f) == f.fn \in {"read", "write"} /\ f.pc = "loop"

\* while a read(reg) or write(reg) is in its transfer loop it is the running
\* call, so that no select (the only issuer of write_zero) runs in between,
\* and the register selected in the device is reg
SelectionHeld ==
    \A k \in 1..Len(stack) :
      InTransfer(stack[k]) => (k = Len(stack) /\ dev.sel = stack[k].reg)

\* the register selected when a top-level operation has returned
SelectionAfter ==
    /\ Succeeded("command") => dev.sel = 9
    /\ Succeeded("read_events") => dev.sel = 25

\* a read or a write returns: the register selected is its reg
SelectionAtReturn ==
    calls' # calls /\ calls' # <<>> => dev'.sel = Last(calls').reg

\* a write_zero is issued by no call but select, and only outside a transfer
WriteZeroOutsideTransfer ==
    (Len(trace') = Len(trace) + 1 /\ Last(trace').op = "write_zero") =>
      /\ Top.fn = "select"
      /\ \A k \in 1..Len(stack) : ~InTransfer(stack[k])

\* C20: between the confirmed select(reg) of get_size and the last chunk of
\* the same read(reg) or write(reg) no write_zero is issued, and every chunk
\* is issued while the register selected in the device is reg; when read(reg)
\* or write(reg, data) returns the selected register is reg, after a
\* successful command() it is 9 and after a successful read_events() 0x19.
C20_SelectionStable ==
    /\ [](SelectionHeld /\ SelectionAfter)
    /\ [][SelectionAtReturn /\ WriteZeroOutsideTransfer]_vars

C20_Witness ==
    /\ Succeeded("read_events")
    /\ dev.sel = 25
    /\ Len(calls) = 4
    /\ Len(SelectSeq(trace, IsWriteZero)) = 6
    /\ faults = 0

(* ---- C17 ---- *)
\* caller i has left raw_command with something else than the answer of the
\* device to its own command: an error, or data of another command
ParWrong(i) ==
    /\ par.c[i].pc = "idle"
    /\ par.c[i].ret.status # "none"
    /\ par.c[i].ret # Return(1, ParData(par.c[i].arg))

\* C17: with a faultless device and bus, a raw_command ends with a timeout,
\* a ProtocolMismatch or data of another caller's command only in executions
\* in which two calls were in progress at the same time; as long as every
\* call has run from its drain to its last reply word before the next one
\* began, each call returns the answer to its own command and leaves the RX
\* FIFO empty. (That interleaved calls do end so is the witness.)
C17_OnlyInterleavingBreaks ==
    ~par.mixed =>
      /\ \A i \in {1, 2} : ~ParWrong(i)
      /\ (\A i \in {1, 2} : par.c[i].pc = "idle") => (par.rx = <<>> /\ par.wire = <<>>)

\* caller 1 got the data of caller 2's command, whose reply caller 2 drained
\* or lost, and caller 2 timed out
C17_Witness ==
    /\ par.mixed
    /\ par.c[1].arg = read_ext(Slave, READ_WINDOW, 4)
    /\ par.c[2].arg = read_ext(Slave, READ_WINDOW + CHUNK, 4)
    /\ par.c[1].ret = Return(1, ParData(par.c[2].arg))
    /\ par.c[2].pc = "idle"
    /\ par.c[2].ret.status = "Timeout"

(* ---- C18 ---- *)
\* C18: a raw_command that succeeds has read exactly 1 + ceil(size / 4)
\* words; when the device has so far queued no stray word and has answered
\* every command with exactly 1 + ceil(size / 4) words, a call that succeeds
\* leaves the RX FIFO empty, and as long as every call has succeeded the
\* drain loop of the next call discards no word.
C18_NoLeftovers ==
    /\ (RawEnded /\ rret.status = "ok") =>
         (rreply # <<>> /\ Len(rbuf) = 4 * ((rarg.size + 3) \div 4))
    /\ (RawEnded /\ rret.status = "ok" /\ hist.regular) => rx = <<>>
    /\ (hist.regular /\ hist.clean) => (~hist.drained /\ hist.n0 = 0)

\* a call that follows successful ones has found nothing to drain and is
\* reading the last data word of the device's 5-word answer
C18_Witness ==
    /\ hist.done
    /\ hist.regular
    /\ hist.clean
    /\ rpc = "data"
    /\ ~hist.drained
    /\ rarg.size = 16
    /\ Len(rbuf) = 12
    /\ Len(rx) = 1

====
